---- MODULE Spec2Model ----
(***************************************************************************)
(* Content safety pipeline of the S.C.O.P.E. backend: the principle        *)
(* checkers and the validator with its audit log (constitutional_ai.py),   *)
(* the external harm judge adapter (harm_detection.py), the review queue   *)
(* manager (review_queue.py) and the two HTTP handlers that drive them     *)
(* (main.py).                                                              *)
(*                                                                         *)
(* Python values are modelled as follows.  None in a String/Text column    *)
(* and JSON null are the string "null"; None in an Integer or DateTime     *)
(* column is 0 (user ids and timestamps start at 1).  JSON booleans        *)
(* are the strings "true" and "false", so that the judge can also answer   *)
(* null, a value of another type, or leave the key out ("missing").        *)
(* The texts the validator reads are strings, character by character.      *)
(***************************************************************************)
EXTENDS Integers, Sequences, FiniteSets, TLC

VARIABLES
    db,        \* the report_reviews table: row i is the review with report_id i
    emailed,   \* report ids whose report send_assessment_email has sent out
    last,      \* the handler that ran last and what it answered
    history,   \* per report: decisions accepted, invalid decisions refused
    pc,        \* position of each concurrent reviewer request
    req,       \* arguments of each concurrent reviewer request
    loaded,    \* the row as each request's session loaded it
    obj,       \* the ReportReview object in each request's session
    inp,       \* the input of the single call of SpecSubmit and SpecValidate
    validators,        \* the ConstitutionalValidator objects alive: their validation_history
    global_validator,  \* _global_validator: 0 is None, else the index of the object
    out,       \* the validator call that returned last and what it returned or wrote
    tl         \* per thread inside a validate_* helper: its arguments and its validator

validator_vars == <<validators, global_validator, out>>

vars == <<db, emailed, last, history, pc, req, loaded, obj, inp, validators,
          global_validator, out, tl>>

(***************************************************************************)
(* Bounds                                                                  *)
(***************************************************************************)
MaxReports == 1

\* validations through the process-wide validator in one run of SpecAudit
MaxValidations == 2

\* None of an Integer / DateTime column
NoneInt == 0

\* datetime.utcnow(): a timestamp, of which the model keeps that it is set
UtcNow == 1

(***************************************************************************)
(* review_queue.py: ReviewStatus                                           *)
(***************************************************************************)
PENDING == "pending"

APPROVED == "approved"

REJECTED == "rejected"

REVISION_REQUESTED == "revision_requested"

ReviewStatus == {PENDING, APPROVED, REJECTED, REVISION_REQUESTED}

(***************************************************************************)
(* Callers.  current_user.role is 'admin' or 'user'; the reviewers are the *)
(* admin users that pass require_admin.                                    *)
(***************************************************************************)
Roles == {"admin", "user"}

UserIdOf(role) == IF role = "admin" THEN 1 ELSE 3

Reviewers == {1, 2}

\* the decision strings a reviewer request can carry; "escalate" stands for
\* every string outside the three the manager knows
Decisions == {"approve", "reject", "revise", "escalate"}

JourneyMode == {"preventive", "medical"}

(***************************************************************************)
(* The judge's reply.  A reply is either a transport failure or a text; a  *)
(* text is a sequence of tokens: a ```json fence, a ``` fence, prose, or   *)
(* one JSON value.                                                         *)
(***************************************************************************)
JsonBool == {"true", "false", "null", "missing", "str"}

RiskLevels == {"SAFE", "CAUTION", "DANGEROUS"}

Severities == {"LOW", "MEDIUM", "HIGH", "CRITICAL"}

\* flagged_sections of a reply: a list of flags (their severities), null,
\* or left out
FlagList(sevs) == [kind |-> "list", items |-> sevs]

FlagNull == [kind |-> "null", items |-> <<>>]

FlagMissing == [kind |-> "missing", items |-> <<>>]

JsonObject(risk, asd, rhr, flags) ==
    [kind |-> "object", risk_level |-> risk, auto_safe_delivery |-> asd,
     requires_human_review |-> rhr, flagged_sections |-> flags,
     overall_assessment |-> "judge assessment"]

\* a JSON value that is not an object: an array, a string, a number, null
JsonNonObject(k) ==
    [kind |-> k, risk_level |-> "missing", auto_safe_delivery |-> "missing",
     requires_human_review |-> "missing", flagged_sections |-> FlagMissing,
     overall_assessment |-> "missing"]

NoJson == JsonNonObject("none")

FenceJson == [t |-> "fence_json", v |-> NoJson]

Fence == [t |-> "fence", v |-> NoJson]

Prose == [t |-> "prose", v |-> NoJson]

Json(v) == [t |-> "json", v |-> v]

\* the ways the judge wraps a JSON value v in its answer
Wrappings(v) ==
    { <<Json(v)>>,
      <<FenceJson, Json(v), Fence>>,
      <<Fence, Json(v), Fence>>,
      <<Prose, FenceJson, Json(v), Fence, Prose>>,
      <<FenceJson, Json(v)>>,
      <<Prose, Json(v)>>,
      <<Json(v), Prose>>,
      <<Fence, Prose, Fence, Json(v)>> }

TransportError == [transport |-> "error", text |-> <<>>]

TextReply(toks) == [transport |-> "ok", text |-> toks]

(***************************************************************************)
(* harm_detection.py: LLMHarmDetector.scan_report                          *)
(***************************************************************************)
HasToken(s, T) == \E i \in 1..Len(s) : s[i].t \in T

FirstIdx(s, T) == CHOOSE i \in 1..Len(s) :
                      /\ s[i].t \in T
                      /\ \A j \in 1..(i-1) : s[j].t \notin T

\* str.split(sep)[0]: what stands before the first separator
SplitHead(s, T) == IF HasToken(s, T) THEN SubSeq(s, 1, FirstIdx(s, T) - 1) ELSE s

\* str.split(sep)[1]: what stands between the first and the second separator
SplitSecond(s, T) == SplitHead(SubSeq(s, FirstIdx(s, T) + 1, Len(s)), T)

\* lines 187-190: take the JSON out of a markdown code block.  The text
\* '```' also occurs inside '```json'.
ExtractJson(text) ==
    IF HasToken(text, {"fence_json"})
    THEN SplitHead(SplitSecond(text, {"fence_json"}), {"fence", "fence_json"})
    ELSE IF HasToken(text, {"fence", "fence_json"})
         THEN SplitHead(SplitSecond(text, {"fence", "fence_json"}), {"fence", "fence_json"})
         ELSE text

\* line 192: json.loads succeeds on exactly one JSON value
JsonLoads(text) ==
    IF Len(text) = 1 /\ text[1].t = "json"
    THEN [ok |-> TRUE, value |-> text[1].v]
    ELSE [ok |-> FALSE, value |-> NoJson]

\* variant: the fallback carries the routing fields of a safe verdict
FallbackParse_FailOpen(mode) ==
    [risk_level |-> "SAFE",
     overall_assessment |-> <<"Unable to parse LLM analysis - requires human review">>,
     flagged_sections |-> FlagList(<<>>),
     requires_human_review |-> "false",
     auto_safe_delivery |-> "true",
     session_mode |-> mode,
     error |-> "JSONDecodeError"]

\* lines 206-219: the verdict built when the reply is not JSON
FallbackParse(mode) ==
    [risk_level |-> "CAUTION",
     overall_assessment |-> <<"Unable to parse LLM analysis - requires human review">>,
     flagged_sections |-> FlagList(<<>>),
     requires_human_review |-> "true",
     auto_safe_delivery |-> "false",
     session_mode |-> mode,
     error |-> "JSONDecodeError"]

\* lines 225-238: the verdict built on any other exception
FallbackError(mode, e) ==
    [risk_level |-> "CAUTION",
     overall_assessment |-> <<"Harm detection error: ", e>>,
     flagged_sections |-> FlagList(<<>>),
     requires_human_review |-> "true",
     auto_safe_delivery |-> "false",
     session_mode |-> mode,
     error |-> e]

\* lines 192-199: the parsed object is returned as it is, with metadata added
Analysis(v, mode) ==
    [risk_level |-> v.risk_level,
     overall_assessment |-> <<v.overall_assessment>>,
     flagged_sections |-> v.flagged_sections,
     requires_human_review |-> v.requires_human_review,
     auto_safe_delivery |-> v.auto_safe_delivery,
     session_mode |-> mode,
     error |-> "missing"]

Raised == [risk_level |-> "missing", overall_assessment |-> <<>>,
           flagged_sections |-> FlagMissing, requires_human_review |-> "missing",
           auto_safe_delivery |-> "missing", session_mode |-> "missing",
           error |-> "missing"]

\* variant: only json.JSONDecodeError is caught, any other error leaves scan_report
OnException_Propagates(mode, e) == [raised |-> TRUE, verdict |-> Raised]

\* lines 221-238: except Exception turns the error into a verdict
OnException(mode, e) == [raised |-> FALSE, verdict |-> FallbackError(mode, e)]

\* lines 171-238
scan_report(reply, mode) ==
    IF reply.transport = "error"
    THEN OnException(mode, "APIConnectionError")
    ELSE LET parsed == JsonLoads(ExtractJson(reply.text))
         IN  IF ~parsed.ok
             THEN [raised |-> FALSE, verdict |-> FallbackParse(mode)]
             ELSE IF parsed.value.kind # "object"
                  THEN \* analysis['detector_model'] = ... on a non-dict
                       OnException(mode, "TypeError")
                  ELSE [raised |-> FALSE, verdict |-> Analysis(parsed.value, mode)]

(***************************************************************************)
(* review_queue.py: ReportReview and ReviewQueueManager                    *)
(***************************************************************************)
\* dict.get(key, default)
Get(value, default) == IF value = "missing" THEN default ELSE value

\* Python truth value of a JSON value
Truthy(value) == value \notin {"false", "null"}

\* what a Boolean column accepts at flush time
IsBooleanColumnValue(value) == value \in {"true", "false", "null"}

\* lines 127-142: the ReportReview object; the other columns keep their defaults
ReportReview(role, mode, verdict) ==
    [session_id |-> "session",
     user_id |-> UserIdOf(role),
     report_html |-> "report",
     llm_analysis |-> verdict,
     risk_level |-> Get(verdict.risk_level, "CAUTION"),
     flagged_sections_count |-> Len(verdict.flagged_sections.items),
     user_journey_summary |-> "summary",
     key_themes |-> "themes",
     mode |-> mode,
     status |-> PENDING,
     requires_human_review |-> Get(verdict.requires_human_review, "true"),
     auto_safe_delivery |-> Get(verdict.auto_safe_delivery, "false"),
     admin_bypass |-> (role = "admin"),
     reviewer_id |-> NoneInt,
     reviewed_at |-> NoneInt,
     reviewer_notes |-> "null",
     reviewer_decision |-> "null",
     delivered_at |-> NoneInt,
     delivery_method |-> "null"]

NoReview == ReportReview("user", "missing", Raised)

\* variant: a DANGEROUS verdict is queued whatever its routing fields say
DecisionLogic_RiskAware(review, role, verdict) ==
    IF role = "admin"
    THEN [review EXCEPT !.status = APPROVED,
                        !.reviewer_notes = "Admin user - auto-approved"]
    ELSE IF Truthy(Get(verdict.auto_safe_delivery, "false"))
            /\ ~Truthy(Get(verdict.requires_human_review, "true"))
            /\ Get(verdict.risk_level, "CAUTION") # "DANGEROUS"
         THEN [review EXCEPT !.status = APPROVED,
                             !.reviewer_notes = "LLM harm detector: SAFE (no human review required)"]
         ELSE [review EXCEPT !.status = PENDING]

\* lines 144-161: DECISION LOGIC
DecisionLogic(review, role, verdict) ==
    IF role = "admin"
    THEN [review EXCEPT !.status = APPROVED,
                        !.reviewer_notes = "Admin user - auto-approved"]
    ELSE IF Truthy(Get(verdict.auto_safe_delivery, "false"))
            /\ ~Truthy(Get(verdict.requires_human_review, "true"))
         THEN [review EXCEPT !.status = APPROVED,
                             !.reviewer_notes = "LLM harm detector: SAFE (no human review required)"]
         ELSE [review EXCEPT !.status = PENDING]

\* lines 149, 155, 160: the line the DECISION LOGIC prints on the console;
\* "Notification handled by calling code" (line 161)
DecisionPrint(role, verdict) ==
    IF role = "admin"
    THEN "Admin bypass"
    ELSE IF Truthy(Get(verdict.auto_safe_delivery, "false"))
            /\ ~Truthy(Get(verdict.requires_human_review, "true"))
         THEN "Auto-safe"
         ELSE "Queued for review"

\* lines 103-167.  The call raises when scan_report raises, when
\* flagged_sections has no len(), and when the commit refuses a value.
submit_report_for_review(role, mode, reply) ==
    LET scan == scan_report(reply, mode)
        verdict == scan.verdict
    IN  IF scan.raised \/ verdict.flagged_sections.kind = "null"
        THEN [raised |-> TRUE, review |-> NoReview]
        ELSE LET review == DecisionLogic(ReportReview(role, mode, verdict), role, verdict)
             IN  IF IsBooleanColumnValue(review.requires_human_review)
                    /\ IsBooleanColumnValue(review.auto_safe_delivery)
                 THEN [raised |-> FALSE, review |-> review]
                 ELSE [raised |-> TRUE, review |-> NoReview]

\* lines 212-216
get_review_by_id(rows, report_id) ==
    IF report_id \in 1..Len(rows)
    THEN [found |-> TRUE, review |-> rows[report_id]]
    ELSE [found |-> FALSE, review |-> NoReview]

\* query(ReportReview).filter(...).count()
Count(rows, Filter(_)) == Cardinality({ i \in 1..Len(rows) : Filter(rows[i]) })

\* lines 254-282, on the rows of the table; auto_approval_rate is
\* auto_approved / max(approved, 1)
get_review_stats(rows) ==
    LET total_pending == Count(rows, LAMBDA review : review.status = PENDING)
        total_approved == Count(rows, LAMBDA review : review.status = APPROVED)
        total_rejected == Count(rows, LAMBDA review : review.status = REJECTED)
        auto_approved == Count(rows, LAMBDA review : /\ review.status = APPROVED
                                                      /\ review.reviewer_id = NoneInt)
    IN  [pending |-> total_pending,
         approved |-> total_approved,
         rejected |-> total_rejected,
         auto_approved |-> auto_approved,
         total |-> total_pending + total_approved + total_rejected]

\* variant: the stamp leaves reviewer_decision out
Stamp_NoDecision(review, reviewer_id, decision, reviewer_notes, now) ==
    [review EXCEPT !.reviewer_id = reviewer_id,
                   !.reviewed_at = now,
                   !.reviewer_notes = reviewer_notes]

\* variant: the stamp also takes the reviewer's decision for the risk level
Stamp_OverwritesRiskLevel(review, reviewer_id, decision, reviewer_notes, now) ==
    [review EXCEPT !.reviewer_id = reviewer_id,
                   !.reviewed_at = now,
                   !.reviewer_notes = reviewer_notes,
                   !.reviewer_decision = decision,
                   !.risk_level = IF decision = "approve" THEN "SAFE" ELSE @]

\* lines 235-238: the reviewer's stamp, set before the decision is looked at
Stamp(review, reviewer_id, decision, reviewer_notes, now) ==
    [review EXCEPT !.reviewer_id = reviewer_id,
                   !.reviewed_at = now,
                   !.reviewer_notes = reviewer_notes,
                   !.reviewer_decision = decision]

\* variant: no else branch, an unknown decision is committed as it is
ApplyDecision_NoElse(review, decision) ==
    IF decision = "approve"
    THEN [result |-> "ok", review |-> [review EXCEPT !.status = APPROVED]]
    ELSE IF decision = "reject"
         THEN [result |-> "ok", review |-> [review EXCEPT !.status = REJECTED]]
         ELSE IF decision = "revise"
              THEN [result |-> "ok", review |-> [review EXCEPT !.status = REVISION_REQUESTED]]
              ELSE [result |-> "ok", review |-> review]

\* lines 240-247: decision -> status, or 400 "Invalid decision"
ApplyDecision(review, decision) ==
    IF decision = "approve"
    THEN [result |-> "ok", review |-> [review EXCEPT !.status = APPROVED]]
    ELSE IF decision = "reject"
         THEN [result |-> "ok", review |-> [review EXCEPT !.status = REJECTED]]
         ELSE IF decision = "revise"
              THEN [result |-> "ok", review |-> [review EXCEPT !.status = REVISION_REQUESTED]]
              ELSE [result |-> "InvalidArgument", review |-> review]

\* variant: the status of the record is not looked at
CheckPending_NoStatusCheck(got) ==
    IF ~got.found THEN "NotFound" ELSE "ok"

\* lines 228-232: 404 "Report not found", 400 "Report already reviewed"
CheckPending(got) ==
    IF ~got.found THEN "NotFound"
    ELSE IF got.review.status # PENDING THEN "InvalidState"
         ELSE "ok"

\* variant: the decision string is validated before the record is looked at
submit_reviewer_decision_ValidateFirst(got, reviewer_id, decision, reviewer_notes, now) ==
    IF decision \notin {"approve", "reject", "revise"}
    THEN [result |-> "InvalidArgument", review |-> got.review]
    ELSE IF CheckPending(got) # "ok"
         THEN [result |-> CheckPending(got), review |-> got.review]
         ELSE ApplyDecision(Stamp(got.review, reviewer_id, decision, reviewer_notes, now),
                            decision)

\* lines 218-252, on the object the session holds for report_id.  review is
\* the object after the call; it is committed only when result is "ok".
submit_reviewer_decision(got, reviewer_id, decision, reviewer_notes, now) ==
    IF CheckPending(got) # "ok"
    THEN [result |-> CheckPending(got), review |-> got.review]
    ELSE ApplyDecision(Stamp(got.review, reviewer_id, decision, reviewer_notes, now),
                       decision)

\* Session.commit: the UPDATE carries the attributes whose value differs from
\* the one the session loaded, and no condition on the current status
Flush(row, snapshot, object) ==
    [f \in DOMAIN row |-> IF object[f] # snapshot[f] THEN object[f] ELSE row[f]]

(***************************************************************************)
(* constitutional_ai.py: the five principle checkers.  Contents are        *)
(* strings; a pattern matches where it is a substring of the lower-cased   *)
(* content.                                                                *)
(***************************************************************************)
\* str.lower(), on the letters the contents are written with
LowerChar(ch) ==
    CASE ch = "A" -> "a" [] ch = "B" -> "b" [] ch = "C" -> "c" [] ch = "D" -> "d"
      [] ch = "E" -> "e" [] ch = "F" -> "f" [] ch = "G" -> "g" [] ch = "H" -> "h"
      [] ch = "I" -> "i" [] ch = "J" -> "j" [] ch = "K" -> "k" [] ch = "L" -> "l"
      [] ch = "M" -> "m" [] ch = "N" -> "n" [] ch = "O" -> "o" [] ch = "P" -> "p"
      [] ch = "Q" -> "q" [] ch = "R" -> "r" [] ch = "S" -> "s" [] ch = "T" -> "t"
      [] ch = "U" -> "u" [] ch = "V" -> "v" [] ch = "W" -> "w" [] ch = "X" -> "x"
      [] ch = "Y" -> "y" [] ch = "Z" -> "z"
      [] OTHER -> ch

RECURSIVE Lower(_)
Lower(s) ==
    IF Len(s) <= 1 THEN LowerChar(s)
    ELSE Lower(SubSeq(s, 1, Len(s) \div 2)) \o Lower(SubSeq(s, Len(s) \div 2 + 1, Len(s)))

\* pattern in content_lower
In(pattern, content_lower) ==
    \E i \in 1..(Len(content_lower) - Len(pattern) + 1) :
        SubSeq(content_lower, i, i + Len(pattern) - 1) = pattern

\* class Ahimsa: harm_indicators, then forcing_patterns
Ahimsa ==
    [name |-> "Ahimsa",
     first |->
        <<"stop medication", "ignore doctor", "avoid treatment",
          "skip consultation", "self-diagnose", "definitely have",
          "must be", "always means", "you should stop">>,
     first_message |-> "AHIMSA VIOLATION: Content suggests potentially harmful medical advice: ",
     second |->
        <<"you need to tell me", "you must share", "everyone does this",
          "it's wrong not to", "you're avoiding">>,
     second_message |-> "AHIMSA VIOLATION: Content forces user disclosure: ",
     harmony |-> "Ahimsa: Content respects user's boundaries and safety"]

\* class Satya: false_certainty, then dismissal_patterns
Satya ==
    [name |-> "Satya",
     first |->
        <<"guaranteed", "definitely will", "always works",
          "never fails", "impossible to", "certain to",
          "100% effective", "proven cure">>,
     first_message |-> "SATYA VIOLATION: Overstating certainty: ",
     second |->
        <<"you're contradicting yourself", "that doesn't make sense", "pick one",
          "which is it really", "stop being inconsistent">>,
     second_message |-> "SATYA VIOLATION: Dismissing user's contradictions: ",
     harmony |-> "Satya: Content honors complexity and uncertainty"]

\* class Asteya: theft_patterns, then manipulation_patterns
Asteya ==
    [name |-> "Asteya",
     first |->
        <<"you really mean", "what you're actually saying is", "let me tell you what's happening",
          "the truth is", "you're in denial about", "you don't realize">>,
     first_message |-> "ASTEYA VIOLATION: Stealing user's interpretation: ",
     second |->
        <<"must buy", "need to purchase", "requires paid",
          "won't work unless", "have to subscribe", "click here to cure">>,
     second_message |-> "ASTEYA VIOLATION: Manipulative commercial intent: ",
     harmony |-> "Asteya: Content respects user's narrative ownership"]

\* class Brahmacharya: overreach_patterns, then intensity_patterns
Brahmacharya ==
    [name |-> "Brahmacharya",
     first |->
        <<"diagnose yourself", "you have", "you definitely",
          "symptoms indicate", "medical diagnosis", "prescribe",
          "instead of doctor", "don't need medical">>,
     first_message |-> "BRAHMACHARYA VIOLATION: Exceeding health coach scope: ",
     second |->
        <<"you must confront", "face your trauma now", "dig deeper immediately",
          "you need to process this now">>,
     second_message |-> "BRAHMACHARYA VIOLATION: Forcing emotional intensity: ",
     harmony |-> "Brahmacharya: Content maintains appropriate boundaries"]

\* class Aparigraha: brand_indicators, then attachment_patterns
Aparigraha ==
    [name |-> "Aparigraha",
     first |->
        <<"this brand", "buy our", "my product",
          "exclusive offer", "limited time", "act now">>,
     first_message |-> "APARIGRAHA VIOLATION: Commercial bias detected: ",
     second |->
        <<"you have to", "you must achieve", "only way forward",
          "my solution is", "follow my plan", "do exactly">>,
     second_message |-> "APARIGRAHA VIOLATION: Attached to specific outcome: ",
     harmony |-> "Aparigraha: Content offers without attachment"]

\* for pattern in patterns: if pattern in content_lower: return ...
\* the index of the pattern the loop returns at, 0 when it runs to its end
RECURSIVE ForLoop(_, _, _)
ForLoop(patterns, content_lower, k) ==
    IF k > Len(patterns) THEN 0
    ELSE IF In(patterns[k], content_lower) THEN k
         ELSE ForLoop(patterns, content_lower, k + 1)

\* variant: the content is searched as it is written
validate_CaseSensitive(principle, content) ==
    LET i == ForLoop(principle.first, content, 1)
        j == ForLoop(principle.second, content, 1)
    IN  IF i # 0
        THEN [is_valid |-> FALSE,
              explanation |-> principle.first_message \o "'" \o principle.first[i] \o "'"]
        ELSE IF j # 0
             THEN [is_valid |-> FALSE,
                   explanation |-> principle.second_message \o "'" \o principle.second[j] \o "'"]
             ELSE [is_valid |-> TRUE, explanation |-> principle.harmony]

\* Ahimsa.validate (lines 57-70) and the four methods of the same shape
validate(principle, content) ==
    LET content_lower == Lower(content)
        i == ForLoop(principle.first, content_lower, 1)
        j == ForLoop(principle.second, content_lower, 1)
    IN  IF i # 0
        THEN [is_valid |-> FALSE,
              explanation |-> principle.first_message \o "'" \o principle.first[i] \o "'"]
        ELSE IF j # 0
             THEN [is_valid |-> FALSE,
                   explanation |-> principle.second_message \o "'" \o principle.second[j] \o "'"]
             ELSE [is_valid |-> TRUE, explanation |-> principle.harmony]

(***************************************************************************)
(* constitutional_ai.py: ConstitutionalValidator.  A validator object is   *)
(* its validation_history.  The digests of hashlib are taken as free of    *)
(* collisions: a digest is modelled by the string it is computed from.     *)
(***************************************************************************)
\* lines 234-240: self.principles, a dict, iterated in insertion order
Principles == <<Ahimsa, Satya, Asteya, Brahmacharya, Aparigraha>>

\* content[:100]
PrefixLen == 100

Prefix(content) ==
    IF Len(content) <= PrefixLen THEN content ELSE SubSeq(content, 1, PrefixLen)

Md5Hex12Upper(s) == "MD5:" \o s

Sha256Hex(s) == "sha256:" \o s

\* variant: the id is computed from the content prefix alone
generate_receipt_id_NoTimestamp(content, timestamp) ==
    "CONST_" \o Md5Hex12Upper(Prefix(content))

\* lines 316-319
generate_receipt_id(content, timestamp) ==
    "CONST_" \o Md5Hex12Upper(Prefix(content) \o timestamp)

\* str(len(harmonies))
ToStr(n) ==
    CASE n = 0 -> "0" [] n = 1 -> "1" [] n = 2 -> "2" [] n = 3 -> "3" [] n = 4 -> "4"
      [] OTHER -> "5"

\* ', '.join(names)
RECURSIVE Join(_)
Join(names) ==
    IF Len(names) = 0 THEN ""
    ELSE IF Len(names) = 1 THEN names[1]
         ELSE names[1] \o ", " \o Join(Tail(names))

\* lines 321-327, without the leading emoji
generate_summary(harmonies, violations) ==
    IF Len(violations) = 0
    THEN "Constitutional validation PASSED. All " \o ToStr(Len(harmonies))
             \o " principles in harmony."
    ELSE "Constitutional validation FAILED. Violations: "
             \o Join([k \in 1..Len(violations) |-> violations[k].principle])

\* the context dict of a receipt: the keys the helpers set; {} is NoContext
Context(validation_type, synthesis_length) ==
    [validation_type |-> validation_type, synthesis_length |-> synthesis_length]

NoContext == Context("missing", 0)

\* lines 265-279: one entry per principle
Entry(principle, content) ==
    LET r == validate(principle, content)
    IN  [principle |-> principle.name,
         status |-> IF r.is_valid THEN "harmony" ELSE "violation",
         explanation |-> r.explanation]

IsHarmony(entry) == entry.status = "harmony"

IsViolation(entry) == entry.status = "violation"

\* variant: the receipt passes when some principle is in harmony
Receipt_PartialCredit(content, content_type, context, timestamp) ==
    LET entries == [k \in 1..Len(Principles) |-> Entry(Principles[k], content)]
        harmonies == SelectSeq(entries, IsHarmony)
        violations == SelectSeq(entries, IsViolation)
    IN  [receipt_id |-> generate_receipt_id(content, timestamp),
         timestamp |-> timestamp,
         content_type |-> content_type,
         content_hash |-> Sha256Hex(content),
         validation_result |-> IF Len(harmonies) > 0 THEN "PASSED" ELSE "FAILED",
         harmonies |-> harmonies,
         violations |-> violations,
         summary |-> generate_summary(harmonies, violations),
         context |-> context]

\* lines 260-292: the receipt validate_content builds at timestamp
Receipt(content, content_type, context, timestamp) ==
    LET entries == [k \in 1..Len(Principles) |-> Entry(Principles[k], content)]
        harmonies == SelectSeq(entries, IsHarmony)
        violations == SelectSeq(entries, IsViolation)
    IN  [receipt_id |-> generate_receipt_id(content, timestamp),
         timestamp |-> timestamp,
         content_type |-> content_type,
         content_hash |-> Sha256Hex(content),
         validation_result |-> IF Len(violations) = 0 THEN "PASSED" ELSE "FAILED",
         harmonies |-> harmonies,
         violations |-> violations,
         summary |-> generate_summary(harmonies, violations),
         context |-> context]

\* variant: the history keeps the latest receipt only
validate_content_KeepsLatest(validation_history, content, content_type, context, timestamp) ==
    LET receipt == Receipt(content, content_type, context, timestamp)
    IN  [receipt |-> receipt, validation_history |-> <<receipt>>]

\* lines 243-297: the receipt returned and the history after the call
validate_content(validation_history, content, content_type, context, timestamp) ==
    LET receipt == Receipt(content, content_type, context, timestamp)
    IN  [receipt |-> receipt, validation_history |-> Append(validation_history, receipt)]

\* lines 329-333; a content_type of "null" is None
get_audit_trail(validation_history, content_type) ==
    IF content_type # "null"
    THEN SelectSeq(validation_history, LAMBDA r : r.content_type = content_type)
    ELSE validation_history

\* lines 335-339: what json.dump writes to the file
export_receipts(validation_history) == validation_history

(***************************************************************************)
(* constitutional_ai.py: the singleton and the helpers                     *)
(***************************************************************************)
NoOut == [op |-> "none", receipts |-> <<>>]

NoLocal == [content |-> "", content_type |-> "null", timestamp |-> "", validator |-> 0]

\* the audit log of the process: the history of the singleton, if there is one
GlobalLog ==
    IF global_validator = 0 THEN <<>> ELSE validators[global_validator]

\* lines 382-387, run without interruption: the objects alive and the
\* singleton after the call
get_constitutional_validator(objects, singleton) ==
    IF singleton = 0
    THEN [validators |-> Append(objects, <<>>), global_validator |-> Len(objects) + 1]
    ELSE [validators |-> objects, global_validator |-> singleton]

\* lines 299-314: the context the two validate_* methods build
HelperContext(content_type, content) ==
    IF content_type = "story_synthesis"
    THEN Context("story_synthesis", Len(content))
    ELSE Context("recommendation", 0)

\* lines 394-402: validate_story_synthesis / validate_recommendation
HelperValidate(objects, singleton, content, content_type, timestamp) ==
    LET gv == get_constitutional_validator(objects, singleton)
        r == validate_content(gv.validators[gv.global_validator], content, content_type,
                              HelperContext(content_type, content), timestamp)
    IN  [validators |-> [gv.validators EXCEPT ![gv.global_validator] = r.validation_history],
         global_validator |-> gv.global_validator,
         receipt |-> r.receipt]

(***************************************************************************)
(* main.py: the handlers                                                   *)
(***************************************************************************)
\* line 784: "if True:  # Was: review.status == 'approved'"
BETA_MODE == TRUE

\* line 881 reads updated_review.user_email; ReportReview (review_queue.py
\* lines 28-71) has no such attribute
ReportReviewHasUserEmail == FALSE

NoCall == [op |-> "none", report_id |-> 0, decision |-> "null",
           result |-> "none", response |-> "none", printed |-> "none"]

NoHistory == [ok |-> 0, invalid |-> FALSE]

Procs == {1, 2}

NoReq == [report_id |-> 0, decision |-> "null", reviewer_notes |-> "null"]

NoInput == [role |-> "user", mode |-> "missing", reply |-> TransportError]

\* the report the language model wrote (line 697) and the time of the call
ReportHtml == "<p>story</p>"

UtcNowIso == "2025-11-02T10:00:00"

\* lines 703-716 of finalize_session: validate the report, export the log
ValidateAndExport(content, timestamp) ==
    \E v \in {HelperValidate(validators, global_validator, content, "story_synthesis", timestamp)} :
        /\ validators' = v.validators
        /\ global_validator' = v.global_validator
        /\ out' = [op |-> "export_all_receipts",
                   receipts |-> export_receipts(v.validators[v.global_validator])]

\* lines 753-812 of finalize_session, from the review submission on
FinalizeSessionWith(role, mode, reply, sent) ==
    LET r == submit_report_for_review(role, mode, reply)
        report_id == Len(db) + 1
    IN  IF r.raised
        THEN \* lines 808-812
             /\ last' = [op |-> "finalize_session", report_id |-> 0, decision |-> "null",
                         result |-> "raised", response |-> "500", printed |-> "none"]
             /\ UNCHANGED <<db, history, emailed>>
        ELSE /\ db' = Append(db, r.review)
             /\ history' = Append(history, NoHistory)
             /\ IF BETA_MODE \/ r.review.status = APPROVED
                THEN \* lines 786-796
                     /\ emailed' = IF sent THEN emailed \cup {report_id} ELSE emailed
                     /\ last' = [op |-> "finalize_session", report_id |-> report_id,
                                 decision |-> "null", result |-> "ok",
                                 response |-> IF sent THEN "delivered" ELSE "500",
                                 printed |-> DecisionPrint(role, r.review.llm_analysis)]
                ELSE \* lines 798-804
                     /\ emailed' = emailed
                     /\ last' = [op |-> "finalize_session", report_id |-> report_id,
                                 decision |-> "null", result |-> "ok",
                                 response |-> "pending_review",
                                 printed |-> DecisionPrint(role, r.review.llm_analysis)]

\* lines 868-895 of submit_review_decision, after the manager's call returned
\* updated (the refreshed row) for report_id
Deliver(report_id, updated, sent) ==
    IF updated.reviewer_decision = "approve"
    THEN IF ~ReportReviewHasUserEmail
         THEN \* AttributeError at line 881
              [response |-> "500", sent |-> FALSE, delivered |-> FALSE]
         ELSE IF ~sent
              THEN [response |-> "500", sent |-> FALSE, delivered |-> FALSE]
              ELSE [response |-> "success", sent |-> TRUE, delivered |-> TRUE]
    ELSE [response |-> "success", sent |-> FALSE, delivered |-> FALSE]

HttpError(result) ==
    IF result = "NotFound" THEN "404" ELSE "400"

(***************************************************************************)
(* Inputs                                                                  *)
(***************************************************************************)
ReviewerNotes == {"see flagged sections"}

NonJsonTexts == { <<>>, <<Prose>>, <<FenceJson, Prose, Fence>>, <<Fence, Fence>> }

\* the journey mode only labels the record (lines 138, 197)
CoreModes == {"medical"}

\* the replies the handlers of Spec draw from: the judge is unreachable, two
\* verdicts that follow the DECISION RULES of the prompt (lines 161-165), and
\* one whose routing fields contradict its risk_level
CoreReplies ==
    { TransportError,
      TextReply(<<FenceJson, Json(JsonObject("SAFE", "true", "false", FlagList(<<>>))), Fence>>),
      TextReply(<<Json(JsonObject("DANGEROUS", "false", "true", FlagList(<<"CRITICAL">>)))>>),
      TextReply(<<Json(JsonObject("DANGEROUS", "true", "false", FlagList(<<"CRITICAL">>)))>>) }

JudgeRiskLevels == RiskLevels \cup {"missing", "null", "HIGH"}

JudgeFlags == { FlagList(<<>>), FlagList(<<"CRITICAL">>), FlagNull, FlagMissing }

JudgeObjects ==
    { JsonObject(risk, asd, rhr, flags) :
        risk \in JudgeRiskLevels, asd \in JsonBool, rhr \in JsonBool, flags \in JudgeFlags }

JudgeValues ==
    JudgeObjects \cup { JsonNonObject(k) : k \in {"array", "string", "number", "null"} }

AllReplies ==
    {TransportError}
    \cup { TextReply(t) : t \in NonJsonTexts }
    \cup { TextReply(t) : t \in UNION { Wrappings(v) : v \in JudgeValues } }

(***************************************************************************)
(* State                                                                   *)
(***************************************************************************)
Init ==
    /\ db = <<>>
    /\ emailed = {}
    /\ last = NoCall
    /\ history = <<>>
    /\ pc = [p \in Procs |-> "idle"]
    /\ req = [p \in Procs |-> NoReq]
    /\ loaded = [p \in Procs |-> NoReview]
    /\ obj = [p \in Procs |-> NoReview]
    /\ inp = NoInput
    /\ validators = <<>>
    /\ global_validator = 0
    /\ out = NoOut
    /\ tl = [p \in Procs |-> NoLocal]

\* POST /api/finalize-session (main.py lines 389-812)
FinalizeSession ==
    /\ Len(db) < MaxReports
    /\ ValidateAndExport(ReportHtml, UtcNowIso)
    /\ \E role \in Roles, mode \in CoreModes, reply \in CoreReplies, sent \in BOOLEAN :
           FinalizeSessionWith(role, mode, reply, sent)
    /\ UNCHANGED <<pc, req, loaded, obj, inp, tl>>

\* the outcomes send_assessment_email can have where the handler reaches it
SendOutcomes(updated) ==
    IF updated.reviewer_decision = "approve" /\ ReportReviewHasUserEmail
    THEN BOOLEAN
    ELSE {FALSE}

\* lines 861-895: the decision is committed; deliver and answer
Respond(report_id, decision, updated, sent) ==
    LET d == Deliver(report_id, updated, sent)
    IN  /\ db' = [db EXCEPT ![report_id] =
                     IF d.delivered
                     THEN [updated EXCEPT !.delivered_at = UtcNow,
                                          !.delivery_method = "email"]
                     ELSE updated]
        /\ emailed' = IF d.sent THEN emailed \cup {report_id} ELSE emailed
        /\ last' = [op |-> "submit_review_decision", report_id |-> report_id,
                    decision |-> decision, result |-> "ok", response |-> d.response,
                    printed |-> "none"]

\* the manager raised: FastAPI answers with the HTTPException, get_db closes
\* the session and what the session held is dropped
Refuse(report_id, decision, result) ==
    /\ history' = IF result = "InvalidArgument"
                  THEN [history EXCEPT ![report_id].invalid = TRUE]
                  ELSE history
    /\ last' = [op |-> "submit_review_decision", report_id |-> report_id,
                decision |-> decision, result |-> result,
                response |-> HttpError(result), printed |-> "none"]
    /\ UNCHANGED <<db, emailed>>

\* POST /api/admin/review-report/{report_id} (main.py lines 847-895), run
\* from its first line to its last with nothing in between
SubmitReviewDecision ==
    \E report_id \in 1..(MaxReports + 1), reviewer_id \in Reviewers, decision \in Decisions,
       reviewer_notes \in ReviewerNotes :
        LET got == get_review_by_id(db, report_id)
            r == submit_reviewer_decision(got, reviewer_id, decision, reviewer_notes, UtcNow)
        IN  /\ IF r.result = "ok"
               THEN LET updated == Flush(db[report_id], got.review, r.review)
                    IN  /\ \E sent \in SendOutcomes(updated) :
                               Respond(report_id, decision, updated, sent)
                        /\ history' = [history EXCEPT ![report_id].ok = @ + 1]
               ELSE Refuse(report_id, decision, r.result)
            /\ UNCHANGED <<pc, req, loaded, obj, inp, validator_vars, tl>>

(***************************************************************************)
(* The same handler when two reviewer requests run at the same time, each  *)
(* in a session of its own (get_db, main.py lines 47-52): the steps of     *)
(* submit_reviewer_decision of one request interleave with the other's.    *)
(***************************************************************************)
Idle(p) ==
    /\ pc' = [pc EXCEPT ![p] = "idle"]
    /\ req' = [req EXCEPT ![p] = NoReq]
    /\ loaded' = [loaded EXCEPT ![p] = NoReview]
    /\ obj' = [obj EXCEPT ![p] = NoReview]

\* the request arrives; the reviewer is the admin user p
RaceBegin(p) ==
    /\ pc[p] = "idle"
    /\ \E report_id \in 1..(Len(db) + 1), decision \in Decisions,
          reviewer_notes \in ReviewerNotes :
           req' = [req EXCEPT ![p] = [report_id |-> report_id, decision |-> decision,
                                      reviewer_notes |-> reviewer_notes]]
    /\ pc' = [pc EXCEPT ![p] = "read"]
    /\ UNCHANGED <<db, emailed, last, history, loaded, obj, inp, validator_vars, tl>>

\* review_queue.py line 226: the session loads the row
RaceRead(p) ==
    /\ pc[p] = "read"
    /\ LET got == get_review_by_id(db, req[p].report_id)
       IN  /\ loaded' = [loaded EXCEPT ![p] = got.review]
           /\ obj' = [obj EXCEPT ![p] = got.review]
    /\ pc' = [pc EXCEPT ![p] = "check"]
    /\ UNCHANGED <<db, emailed, last, history, req, inp, validator_vars, tl>>

\* lines 228-232, on what the session loaded
RaceCheck(p) ==
    /\ pc[p] = "check"
    /\ LET got == [found |-> req[p].report_id \in 1..Len(db), review |-> obj[p]]
       IN  IF CheckPending(got) = "ok"
           THEN /\ pc' = [pc EXCEPT ![p] = "write"]
                /\ UNCHANGED <<db, emailed, last, history, req, loaded, obj>>
           ELSE /\ Refuse(req[p].report_id, req[p].decision, CheckPending(got))
                /\ Idle(p)
    /\ UNCHANGED <<inp, validator_vars, tl>>

\* lines 235-247, on the object in the session
RaceWrite(p) ==
    /\ pc[p] = "write"
    /\ LET r == ApplyDecision(Stamp(obj[p], p, req[p].decision, req[p].reviewer_notes, UtcNow),
                              req[p].decision)
       IN  IF r.result = "ok"
           THEN /\ obj' = [obj EXCEPT ![p] = r.review]
                /\ pc' = [pc EXCEPT ![p] = "commit"]
                /\ UNCHANGED <<db, emailed, last, history, req, loaded>>
           ELSE /\ Refuse(req[p].report_id, req[p].decision, r.result)
                /\ Idle(p)
    /\ UNCHANGED <<inp, validator_vars, tl>>

\* lines 249-250 and main.py lines 868-895: commit, refresh, deliver, answer
RaceCommit(p) ==
    /\ pc[p] = "commit"
    /\ LET report_id == req[p].report_id
           updated == Flush(db[report_id], loaded[p], obj[p])
       IN  /\ \E sent \in SendOutcomes(updated) :
                  Respond(report_id, req[p].decision, updated, sent)
           /\ history' = [history EXCEPT ![report_id].ok = @ + 1]
    /\ Idle(p)
    /\ UNCHANGED <<inp, validator_vars, tl>>

\* a report of a non-admin user that the judge found DANGEROUS is in the queue
QueuedReply == TextReply(<<Json(JsonObject("DANGEROUS", "false", "true", FlagList(<<"CRITICAL">>)))>>)

InitRace ==
    /\ db = <<submit_report_for_review("user", "medical", QueuedReply).review>>
    /\ emailed = {}
    /\ last = NoCall
    /\ history = <<NoHistory>>
    /\ pc = [p \in Procs |-> "idle"]
    /\ req = [p \in Procs |-> NoReq]
    /\ loaded = [p \in Procs |-> NoReview]
    /\ obj = [p \in Procs |-> NoReview]
    /\ inp = NoInput
    /\ validators = <<>>
    /\ global_validator = 0
    /\ out = NoOut
    /\ tl = [p \in Procs |-> NoLocal]

NextRace == \E p \in Procs : RaceBegin(p) \/ RaceRead(p) \/ RaceCheck(p) \/ RaceWrite(p) \/ RaceCommit(p)

SpecRace == InitRace /\ [][NextRace]_vars

(***************************************************************************)
(* One submission, for every role, journey mode and reply of the judge     *)
(***************************************************************************)
Inputs == [role : Roles, mode : JourneyMode, reply : AllReplies]

InitSubmit ==
    /\ db = <<>>
    /\ emailed = {}
    /\ last = NoCall
    /\ history = <<>>
    /\ pc = [p \in Procs |-> "idle"]
    /\ req = [p \in Procs |-> NoReq]
    /\ loaded = [p \in Procs |-> NoReview]
    /\ obj = [p \in Procs |-> NoReview]
    /\ inp \in Inputs
    /\ validators = <<>>
    /\ global_validator = 0
    /\ out = NoOut
    /\ tl = [p \in Procs |-> NoLocal]

FinalizeSessionInput ==
    /\ last.op = "none"
    /\ ValidateAndExport(ReportHtml, UtcNowIso)
    /\ \E sent \in BOOLEAN : FinalizeSessionWith(inp.role, inp.mode, inp.reply, sent)
    /\ UNCHANGED <<pc, req, loaded, obj, inp, tl>>

NextSubmit == FinalizeSessionInput

SpecSubmit == InitSubmit /\ [][NextSubmit]_vars

(***************************************************************************)
(* The validator on its own: calls of the helpers, of the methods of the   *)
(* singleton and of a function under constitutional_guard, one after the   *)
(* other                                                                   *)
(***************************************************************************)
\* a text of 100 characters that matches no pattern
Pad10 == "Breathe.  "

Pad100 == Pad10 \o Pad10 \o Pad10 \o Pad10 \o Pad10 \o Pad10 \o Pad10 \o Pad10 \o Pad10 \o Pad10

\* the texts the helpers are called with: two short ones, and two that differ
\* only after their first 100 characters
ShortContents == { "Small steps count.", "You should STOP medication today." }

AuditContents == ShortContents \cup { Pad100 \o "Rest well.", Pad100 \o "It must be hard." }

RecommendationContents == { "You should STOP medication today." }

\* datetime.utcnow().isoformat(): two calls can fall into the same microsecond
Timestamps == {"2025-11-02T10:00:00", "2025-11-02T10:00:00.000001"}

HelperTypes == {"story_synthesis", "recommendation"}

InitAudit ==
    /\ db = <<>>
    /\ emailed = {}
    /\ last = NoCall
    /\ history = <<>>
    /\ pc = [p \in Procs |-> "idle"]
    /\ req = [p \in Procs |-> NoReq]
    /\ loaded = [p \in Procs |-> NoReview]
    /\ obj = [p \in Procs |-> NoReview]
    /\ inp = NoInput
    /\ validators = <<>>
    /\ global_validator = 0
    /\ out = NoOut
    /\ tl = [p \in Procs |-> NoLocal]

\* validate_story_synthesis(content) / validate_recommendation(content) at timestamp
Validate(content, content_type, timestamp) ==
    \E v \in {HelperValidate(validators, global_validator, content, content_type, timestamp)} :
        /\ validators' = v.validators
        /\ global_validator' = v.global_validator
        /\ out' = [op |-> "validate_" \o content_type, receipts |-> <<v.receipt>>]

ValidateStorySynthesis ==
    /\ Len(GlobalLog) < MaxValidations
    /\ \E content \in AuditContents, timestamp \in Timestamps :
           Validate(content, "story_synthesis", timestamp)
    /\ UNCHANGED <<db, emailed, last, history, pc, req, loaded, obj, inp, tl>>

ValidateRecommendation ==
    /\ Len(GlobalLog) < MaxValidations
    /\ \E content \in RecommendationContents, timestamp \in Timestamps :
           Validate(content, "recommendation", timestamp)
    /\ UNCHANGED <<db, emailed, last, history, pc, req, loaded, obj, inp, tl>>

\* get_constitutional_validator().get_audit_trail(content_type)
GetAuditTrail ==
    /\ \E content_type \in HelperTypes \cup {"null"} :
         \E gv \in {get_constitutional_validator(validators, global_validator)} :
           /\ validators' = gv.validators
           /\ global_validator' = gv.global_validator
           /\ out' = [op |-> "get_audit_trail",
                      receipts |-> get_audit_trail(gv.validators[gv.global_validator],
                                                   content_type)]
    /\ UNCHANGED <<db, emailed, last, history, pc, req, loaded, obj, inp, tl>>

\* lines 404-408 and 335-339: the file json.dump writes
ExportAllReceipts ==
    /\ \E gv \in {get_constitutional_validator(validators, global_validator)} :
           /\ validators' = gv.validators
           /\ global_validator' = gv.global_validator
           /\ out' = [op |-> "export_all_receipts",
                      receipts |-> export_receipts(gv.validators[gv.global_validator])]
    /\ UNCHANGED <<db, emailed, last, history, pc, req, loaded, obj, inp, tl>>

\* lines 352-371: a call of a function decorated with
\* constitutional_guard('system_response') that returns the string content.
\* The validator of line 353 is local to the call and gone when it returns.
GuardedCall ==
    /\ \E content \in ShortContents, timestamp \in Timestamps :
         \E r \in {validate_content(<<>>, content, "system_response", NoContext, timestamp)} :
           out' = [op |-> "constitutional_guard", receipts |-> <<r.receipt>>]
    /\ UNCHANGED <<db, emailed, last, history, pc, req, loaded, obj, inp, tl,
                   validators, global_validator>>

NextAudit ==
    \/ ValidateStorySynthesis
    \/ ValidateRecommendation
    \/ GetAuditTrail
    \/ ExportAllReceipts
    \/ GuardedCall

SpecAudit == InitAudit /\ [][NextAudit]_vars

(***************************************************************************)
(* The helpers called from two threads at the same time: the lines of      *)
(* get_constitutional_validator of one thread interleave with the other's; *)
(* list.append is one step.                                                *)
(***************************************************************************)
\* the thread enters validate_story_synthesis or validate_recommendation
ThreadCall(p) ==
    /\ pc[p] = "idle"
    /\ \E content \in ShortContents,
          content_type \in HelperTypes, timestamp \in Timestamps :
           tl' = [tl EXCEPT ![p] = [content |-> content, content_type |-> content_type,
                                    timestamp |-> timestamp, validator |-> 0]]
    /\ pc' = [pc EXCEPT ![p] = "test"]
    /\ UNCHANGED <<db, emailed, last, history, req, loaded, obj, inp, validator_vars>>

\* line 385: if _global_validator is None
ThreadTest(p) ==
    /\ pc[p] = "test"
    /\ pc' = [pc EXCEPT ![p] = IF global_validator = 0 THEN "create" ELSE "return"]
    /\ UNCHANGED <<db, emailed, last, history, req, loaded, obj, inp, validator_vars, tl>>

\* line 386: _global_validator = ConstitutionalValidator()
ThreadCreate(p) ==
    /\ pc[p] = "create"
    /\ validators' = Append(validators, <<>>)
    /\ global_validator' = Len(validators) + 1
    /\ pc' = [pc EXCEPT ![p] = "return"]
    /\ UNCHANGED <<db, emailed, last, history, req, loaded, obj, inp, out, tl>>

\* line 387: return _global_validator
ThreadReturn(p) ==
    /\ pc[p] = "return"
    /\ tl' = [tl EXCEPT ![p].validator = global_validator]
    /\ pc' = [pc EXCEPT ![p] = "validate"]
    /\ UNCHANGED <<db, emailed, last, history, req, loaded, obj, inp, validator_vars>>

\* lines 397 / 402: validate_content on the validator the thread got
ThreadValidate(p) ==
    /\ pc[p] = "validate"
    /\ \E r \in {validate_content(validators[tl[p].validator], tl[p].content,
                                  tl[p].content_type,
                                  HelperContext(tl[p].content_type, tl[p].content),
                                  tl[p].timestamp)} :
           /\ validators' = [validators EXCEPT ![tl[p].validator] = r.validation_history]
           /\ out' = [op |-> "validate_" \o tl[p].content_type, receipts |-> <<r.receipt>>]
    /\ pc' = [pc EXCEPT ![p] = "done"]
    /\ UNCHANGED <<db, emailed, last, history, req, loaded, obj, inp, global_validator, tl>>

NextAuditRace ==
    \E p \in Procs :
        ThreadCall(p) \/ ThreadTest(p) \/ ThreadCreate(p) \/ ThreadReturn(p)
            \/ ThreadValidate(p)

SpecAuditRace == InitAudit /\ [][NextAuditRace]_vars

(***************************************************************************)
(* One validation, for every content of ValidateContents                   *)
(***************************************************************************)
ValidateContents ==
    { "",
      "Small steps count.",
      "you should stop medication",
      "You Should Stop Medication",
      "Please do not stop  medication.",
      "You should stop worrying.",
      "IGNORE DOCTOR",
      "Growth must begin somewhere.",
      "You're avoiding it, and it must be hard.",
      "Everyone does this.",
      "This is guaranteed.",
      "Pick one, it is 100% Effective",
      "That doesn't make sense.",
      "The truth is out there.",
      "You must buy it, you really mean it.",
      "Click here to cure",
      "You have time.",
      "You have to rest.",
      "face your trauma now",
      "A doctor may prescribe rest.",
      "Act now: follow my plan.",
      "do exactly this",
      "Limited Time exclusive offer",
      "It never fails and you definitely have to subscribe to this brand.",
      "stopmedication",
      "self-diagnose",
      "You don't realize it always means more.",
      Pad100 \o "You must share." }

ValidateInputs ==
    [content : ValidateContents, content_type : HelperTypes, timestamp : Timestamps]

InitValidate ==
    /\ db = <<>>
    /\ emailed = {}
    /\ last = NoCall
    /\ history = <<>>
    /\ pc = [p \in Procs |-> "idle"]
    /\ req = [p \in Procs |-> NoReq]
    /\ loaded = [p \in Procs |-> NoReview]
    /\ obj = [p \in Procs |-> NoReview]
    /\ inp \in ValidateInputs
    /\ validators = <<>>
    /\ global_validator = 0
    /\ out = NoOut
    /\ tl = [p \in Procs |-> NoLocal]

ValidateInput ==
    /\ out.op = "none"
    /\ Validate(inp.content, inp.content_type, inp.timestamp)
    /\ UNCHANGED <<db, emailed, last, history, pc, req, loaded, obj, inp, tl>>

NextValidate == ValidateInput

SpecValidate == InitValidate /\ [][NextValidate]_vars

(***************************************************************************)
(* The manager on a session that lives on after a call, as in              *)
(* test_review_system.py: ReviewQueueManager(db) with one SessionLocal().  *)
(* Here obj[i] is the object the session holds for report i (NoReview      *)
(* when it holds none) and loaded[i] is the row as the session loaded it.  *)
(* The session does not flush before a query (autoflush=False) and         *)
(* expires its objects at every commit.                                    *)
(***************************************************************************)
InitSession ==
    /\ db = <<submit_report_for_review("user", "medical", QueuedReply).review>>
    /\ emailed = {}
    /\ last = NoCall
    /\ history = <<NoHistory>>
    /\ pc = [p \in Procs |-> "idle"]
    /\ req = [p \in Procs |-> NoReq]
    /\ loaded = <<NoReview>>
    /\ obj = <<NoReview>>
    /\ inp = NoInput
    /\ validators = <<>>
    /\ global_validator = 0
    /\ out = NoOut
    /\ tl = [p \in Procs |-> NoLocal]

\* Session.commit: every object the session has changed is written, then
\* all its objects are expired
CommitAll(rows, snapshots, objects) ==
    [i \in 1..Len(rows) |->
        IF objects[i] = NoReview THEN rows[i] ELSE Flush(rows[i], snapshots[i], objects[i])]

Expired(rows) == [i \in 1..Len(rows) |-> NoReview]

\* review_queue.py lines 218-252 on the session: the query returns the
\* object the session already holds, else it loads the row
SessionDecision ==
    /\ \E report_id \in 1..(Len(db) + 1), reviewer_id \in Reviewers, decision \in Decisions,
          reviewer_notes \in ReviewerNotes :
         LET found == report_id \in 1..Len(db)
             held == found /\ obj[report_id] # NoReview
             review == IF held THEN obj[report_id]
                       ELSE get_review_by_id(db, report_id).review
             r == submit_reviewer_decision([found |-> found, review |-> review],
                                           reviewer_id, decision, reviewer_notes, UtcNow)
             snapshots == IF held \/ ~found THEN loaded
                          ELSE [loaded EXCEPT ![report_id] = db[report_id]]
         IN  /\ last' = [op |-> "submit_reviewer_decision", report_id |-> report_id,
                         decision |-> decision, result |-> r.result,
                         response |-> "none", printed |-> "none"]
             /\ IF r.result = "ok"
                THEN \* lines 249-250: commit, refresh
                     /\ db' = CommitAll(db, snapshots, [obj EXCEPT ![report_id] = r.review])
                     /\ obj' = Expired(db)
                     /\ loaded' = Expired(db)
                     /\ history' = [history EXCEPT ![report_id].ok = @ + 1]
                ELSE IF found
                     THEN \* the HTTPException leaves the object as the call made it
                          /\ obj' = [obj EXCEPT ![report_id] = r.review]
                          /\ loaded' = snapshots
                          /\ history' = IF r.result = "InvalidArgument"
                                        THEN [history EXCEPT ![report_id].invalid = TRUE]
                                        ELSE history
                          /\ db' = db
                     ELSE UNCHANGED <<db, obj, loaded, history>>
    /\ UNCHANGED <<emailed, pc, req, inp, validator_vars, tl>>

\* review_queue.py lines 103-167 on the same session: another report is
\* scanned, added and committed
SessionSubmit ==
    /\ Len(db) <= MaxReports
    /\ LET r == submit_report_for_review("user", "medical", QueuedReply)
       IN  /\ db' = Append(CommitAll(db, loaded, obj), r.review)
           /\ obj' = Append(Expired(db), NoReview)
           /\ loaded' = Append(Expired(db), NoReview)
           /\ history' = Append(history, NoHistory)
           /\ last' = [op |-> "submit_report_for_review", report_id |-> Len(db) + 1,
                       decision |-> "null", result |-> "ok", response |-> "none",
                       printed |-> DecisionPrint("user", r.review.llm_analysis)]
    /\ UNCHANGED <<emailed, pc, req, inp, validator_vars, tl>>

NextSession == SessionDecision \/ SessionSubmit

SpecSession == InitSession /\ [][NextSession]_vars

(***************************************************************************)
(* The DECISION RULES the prompt gives the judge (harm_detection.py lines  *)
(* 161-165), applied to the severities of the flags the judge has found.   *)
(***************************************************************************)
MaxFlags == 3

CountOf(sevs, severity) == Cardinality({ k \in 1..Len(sevs) : sevs[k] = severity })

\* line 163: "No flags above LOW severity"
SafeRule(sevs) == \A k \in 1..Len(sevs) : sevs[k] = "LOW"

\* line 164: "1+ MEDIUM flags or 3+ LOW flags"
CautionRule(sevs) == CountOf(sevs, "MEDIUM") >= 1 \/ CountOf(sevs, "LOW") >= 3

\* line 165: "Any CRITICAL or 2+ HIGH flags"
DangerousRule(sevs) == CountOf(sevs, "CRITICAL") >= 1 \/ CountOf(sevs, "HIGH") >= 2

\* the risk levels whose rule the flags meet
DecisionRules(sevs) ==
    { risk \in RiskLevels : \/ risk = "SAFE" /\ SafeRule(sevs)
                            \/ risk = "CAUTION" /\ CautionRule(sevs)
                            \/ risk = "DANGEROUS" /\ DangerousRule(sevs) }

\* the lists of flags the judge can have found
FlagLists == UNION { [1..n -> Severities] : n \in 0..MaxFlags }

\* the judge's answer before its risk level is decided
Draft(sevs) ==
    TextReply(<<Json(JsonObject("missing", "missing", "missing", FlagList(sevs)))>>)

InitRules ==
    /\ db = <<>>
    /\ emailed = {}
    /\ last = NoCall
    /\ history = <<>>
    /\ pc = [p \in Procs |-> "idle"]
    /\ req = [p \in Procs |-> NoReq]
    /\ loaded = [p \in Procs |-> NoReview]
    /\ obj = [p \in Procs |-> NoReview]
    /\ \E sevs \in FlagLists : inp = [role |-> "user", mode |-> "medical", reply |-> Draft(sevs)]
    /\ validators = <<>>
    /\ global_validator = 0
    /\ out = NoOut
    /\ tl = [p \in Procs |-> NoLocal]

\* the judge follows the rules: it answers a risk level whose rule its flags
\* meet, with the routing fields the rule names; where no rule is met the
\* prompt leaves the level to the judge
JudgeDecides ==
    /\ last.op = "none"
    /\ LET sevs == inp.reply.text[1].v.flagged_sections.items
           levels == IF DecisionRules(sevs) = {} THEN RiskLevels ELSE DecisionRules(sevs)
       IN  \E risk \in levels :
               /\ inp' = [inp EXCEPT !.reply =
                             TextReply(<<Json(JsonObject(risk,
                                                         IF risk = "SAFE" THEN "true" ELSE "false",
                                                         IF risk = "SAFE" THEN "false" ELSE "true",
                                                         FlagList(sevs)))>>)]
               /\ last' = [NoCall EXCEPT !.op = "decision_rules", !.result = risk]
    /\ UNCHANGED <<db, emailed, history, pc, req, loaded, obj, validator_vars, tl>>

NextRules == JudgeDecides

SpecRules == InitRules /\ [][NextRules]_vars

(***************************************************************************)
(* Report generations, one after the other, with reports and verdicts of   *)
(* every kind a record can be created from.                                *)
(***************************************************************************)
MaxRouted == 2

\* the report the language model wrote: one that passes the validator and
\* one that fails it
RoutingContents == { ReportHtml, "<p>You should STOP medication today.</p>" }

\* the verdicts a record is created from; the replies on which the
\* submission raises are left to SpecSubmit
RoutingReplies ==
    {TransportError}
    \cup { TextReply(<<Json(JsonObject("SAFE", asd, rhr, FlagList(<<>>)))>>) :
             asd \in {"true", "false", "null"}, rhr \in {"true", "false", "null"} }
    \cup { TextReply(<<Json(JsonObject("DANGEROUS", asd, rhr, FlagList(<<"CRITICAL">>)))>>) :
             asd \in {"true", "false", "null"}, rhr \in {"true", "false", "null"} }

FinalizeSessionOf ==
    /\ Len(db) < MaxRouted
    /\ \E content \in RoutingContents : ValidateAndExport(content, UtcNowIso)
    /\ \E role \in Roles, mode \in CoreModes, reply \in RoutingReplies :
           FinalizeSessionWith(role, mode, reply, TRUE)
    /\ UNCHANGED <<pc, req, loaded, obj, inp, tl>>

NextRouting == FinalizeSessionOf

SpecRouting == Init /\ [][NextRouting]_vars

Next == FinalizeSession \/ SubmitReviewDecision

Spec == Init /\ [][Next]_vars

(***************************************************************************)
(* Properties                                                              *)
(***************************************************************************)
Reports == 1..Len(db)

ValidDecisions == {"approve", "reject", "revise"}

StatusOf(decision) ==
    IF decision = "approve" THEN APPROVED
    ELSE IF decision = "reject" THEN REJECTED
         ELSE REVISION_REQUESTED

ReviewerFields(review) ==
    <<review.status, review.reviewer_id, review.reviewed_at, review.reviewer_notes,
      review.reviewer_decision>>

\* the step is one of the review decision handler, on a record that exists
DecisionStepOn(i) ==
    /\ last'.op = "submit_review_decision"
    /\ last'.report_id = i
    /\ i \in Reports

\* C1: once the status of a record is not PENDING it never changes again, and
\* at most one reviewer decision on a record is ever accepted, whatever the
\* sequence of report submissions and reviewer decisions is.
C1_TerminalStatus ==
    /\ [](\A i \in Reports : history[i].ok <= 1)
    /\ [][\A i \in Reports :
            db[i].status # PENDING =>
                /\ db'[i].status = db[i].status
                /\ history'[i].ok = history[i].ok]_vars

C1_Witness ==
    /\ last.result = "InvalidState"
    /\ last.report_id \in Reports
    /\ db[last.report_id].status = REJECTED
    /\ history[last.report_id].ok = 1

\* C2: when two reviewer decisions on the same PENDING report interleave, at
\* most one of them is accepted, the record never carries the reviewer fields
\* of one request with the status of the other, and a committed decision is
\* never overwritten.
C2_SingleDecisionUnderRace ==
    /\ [](\A i \in Reports : history[i].ok <= 1)
    /\ [](\A i \in Reports :
            db[i].reviewer_decision \in ValidDecisions =>
                db[i].status = StatusOf(db[i].reviewer_decision))
    /\ [][\A i \in Reports :
            db[i].status # PENDING => ReviewerFields(db'[i]) = ReviewerFields(db[i])]_vars

\* a text in which json.loads finds no JSON document: there is no JSON value
\* in it, or prose stands next to the value outside of any code fence
Unparseable(reply) ==
    /\ reply.transport = "ok"
    /\ \/ ~HasToken(reply.text, {"json"})
       \/ ~HasToken(reply.text, {"fence", "fence_json"}) /\ Len(reply.text) > 1

\* the only JSON value of the text is not an object
NonObjectJson(reply) ==
    /\ reply.transport = "ok"
    /\ HasToken(reply.text, {"json"})
    /\ \A i \in 1..Len(reply.text) :
           reply.text[i].t = "json" => reply.text[i].v.kind # "object"

Submitted == last.op = "finalize_session"

\* C3: a submission of a non-admin caller for which the judge call fails or
\* answers something that is not JSON is persisted with status PENDING.
C3_NeverFailsOpen ==
    Submitted /\ inp.role # "admin"
              /\ (inp.reply.transport = "error" \/ Unparseable(inp.reply))
        => /\ Len(db) = 1
           /\ db[1].status = PENDING

C3_Witness ==
    /\ Submitted
    /\ inp.role = "user"
    /\ inp.reply = TextReply(<<FenceJson, Prose, Fence>>)
    /\ Len(db) = 1
    /\ db[1].status = PENDING

\* C4: on a transport error, on a reply that is not JSON and on a JSON reply
\* that is not an object, scan_report returns without raising and the verdict
\* is CAUTION with requires_human_review true and auto_safe_delivery false.
C4_ConservativeFallback ==
    Submitted /\ (inp.reply.transport = "error" \/ Unparseable(inp.reply)
                     \/ NonObjectJson(inp.reply))
        => /\ last.result = "ok"
           /\ Len(db) = 1
           /\ db[1].llm_analysis.risk_level = "CAUTION"
           /\ db[1].llm_analysis.requires_human_review = "true"
           /\ db[1].llm_analysis.auto_safe_delivery = "false"

C4_Witness ==
    /\ Submitted
    /\ inp.reply = TextReply(<<Json(JsonNonObject("array"))>>)
    /\ Len(db) = 1
    /\ db[1].llm_analysis.error = "TypeError"
    /\ db[1].llm_analysis.risk_level = "CAUTION"

\* C5: the report generation call does not deliver a report whose record is
\* PENDING: it answers pending_review and sends no email, and it answers
\* delivered only for a record that is APPROVED.
C5_PendingNotDelivered ==
    Submitted /\ last.result = "ok" =>
        /\ db[last.report_id].status = PENDING =>
               /\ last.response = "pending_review"
               /\ last.report_id \notin emailed
        /\ last.response = "delivered" => db[last.report_id].status = APPROVED

\* C6: the status a submission sets: APPROVED with admin_bypass for an admin,
\* whatever the verdict; else APPROVED without reviewer when the verdict has
\* auto_safe_delivery = true and requires_human_review = false; else PENDING.
\* No record is created REJECTED or REVISION_REQUESTED.
C6_RoutingPriority ==
    Submitted /\ last.result = "ok" =>
        LET review == db[last.report_id]
            verdict == review.llm_analysis
        IN  /\ review.status \in {APPROVED, PENDING}
            /\ IF inp.role = "admin"
               THEN review.status = APPROVED /\ review.admin_bypass
               ELSE IF verdict.auto_safe_delivery = "true"
                       /\ verdict.requires_human_review = "false"
                    THEN review.status = APPROVED /\ review.reviewer_id = NoneInt
                    ELSE review.status = PENDING

\* C7: a DANGEROUS report of a non-admin caller is persisted PENDING; a
\* reject decision then sets REJECTED and reviewed_at; a second decision on
\* the same report fails with InvalidState.
C7_DangerousIsQueued ==
    /\ [](Submitted /\ last.result = "ok" =>
            LET review == db[last.report_id]
            IN  review.llm_analysis.risk_level = "DANGEROUS" /\ ~review.admin_bypass
                    => review.status = PENDING)
    /\ [][\A i \in Reports :
            DecisionStepOn(i) /\ db[i].status = PENDING /\ last'.decision = "reject"
                => db'[i].status = REJECTED /\ db'[i].reviewed_at # NoneInt]_vars
    /\ [][\A i \in Reports :
            DecisionStepOn(i) /\ db[i].status = REJECTED
                => last'.result = "InvalidState"]_vars

\* C8: a reviewer decision on an unknown report_id fails with NotFound, one
\* on a record that is not PENDING fails with InvalidState whatever the
\* decision is, and neither records anything.
C8_NotFoundInvalidState ==
    [][last'.op = "submit_review_decision" =>
         /\ last'.report_id \notin Reports =>
                last'.result = "NotFound" /\ db' = db /\ history' = history
         /\ last'.report_id \in Reports /\ db[last'.report_id].status # PENDING =>
                last'.result = "InvalidState" /\ db' = db /\ history' = history]_vars

C8_Witness ==
    /\ last.result = "InvalidState"
    /\ last.decision = "escalate"
    /\ last.report_id \in Reports
    /\ db[last.report_id].status = APPROVED
    /\ db[last.report_id].reviewer_id = NoneInt

\* C9: a decision outside approve, reject, revise on a PENDING record fails
\* with InvalidArgument and leaves the record PENDING; a valid decision on a
\* PENDING record is accepted, also after such a failure.
C9_InvalidDecision ==
    [][\A i \in Reports :
         DecisionStepOn(i) /\ db[i].status = PENDING =>
             IF last'.decision \in ValidDecisions
             THEN last'.result = "ok" /\ db'[i].status = StatusOf(last'.decision)
             ELSE last'.result = "InvalidArgument" /\ db'[i].status = PENDING]_vars

C9_Witness ==
    /\ last.result = "ok"
    /\ last.op = "submit_review_decision"
    /\ history[last.report_id].invalid
    /\ history[last.report_id].ok = 1

\* C10: in every state reviewer_decision and status of a record agree, and a
\* REJECTED or REVISION_REQUESTED record has reviewer_id, reviewed_at and
\* reviewer_decision set.
C10_DecisionMatchesStatus ==
    \A i \in Reports :
        /\ db[i].reviewer_decision \in ValidDecisions =>
               db[i].status = StatusOf(db[i].reviewer_decision)
        /\ db[i].status \in {REJECTED, REVISION_REQUESTED} =>
               /\ db[i].reviewer_id # NoneInt
               /\ db[i].reviewed_at # NoneInt
               /\ db[i].reviewer_decision # "null"

C10_Witness ==
    \E i \in Reports :
        /\ db[i].status = REVISION_REQUESTED
        /\ db[i].reviewer_decision = "revise"
        /\ db[i].reviewer_id = 2

\* the severities of the flags of a verdict
FlagSeverities(verdict) ==
    { verdict.flagged_sections.items[k] : k \in 1..Len(verdict.flagged_sections.items) }

\* C11: in the verdict scan_report returns, a flag of severity CRITICAL goes
\* with risk_level DANGEROUS, and no flag above LOW goes with risk_level SAFE
\* and auto_safe_delivery true.
C11_RiskLevelMapping ==
    Submitted /\ last.result = "ok" =>
        LET verdict == db[last.report_id].llm_analysis
        IN  /\ "CRITICAL" \in FlagSeverities(verdict) => verdict.risk_level = "DANGEROUS"
            /\ FlagSeverities(verdict) \subseteq {"LOW"} =>
                   verdict.risk_level = "SAFE" /\ verdict.auto_safe_delivery = "true"

\* C20: whatever the judge answers, the submission completes, persists a
\* review record and returns it.
C20_MalformedNeverFatal ==
    Submitted => /\ last.result = "ok"
                 /\ Len(db) = 1
                 /\ last.report_id = 1

\* C12: a submission whose verdict has risk_level DANGEROUS is routed to human
\* review and raises an alert; the warning the manager prints for a queued
\* report is the only notice the submission gives.
C12_DangerousAlert ==
    Submitted /\ last.result = "ok"
              /\ db[last.report_id].llm_analysis.risk_level = "DANGEROUS"
        => /\ db[last.report_id].status = PENDING
           /\ last.printed = "Queued for review"

\* the columns of a record that are set when it is created
CreationFields(review) ==
    <<review.session_id, review.user_id, review.report_html, review.risk_level,
      review.flagged_sections_count, review.mode, review.user_journey_summary,
      review.key_themes, review.llm_analysis>>

\* C19: a reviewer decision, accepted or refused, leaves the columns set at
\* creation and the embedded verdict of every record as they were.
C19_DecisionFrame ==
    [][last'.op = "submit_review_decision" =>
         /\ Len(db') = Len(db)
         /\ \A i \in Reports : CreationFields(db'[i]) = CreationFields(db[i])]_vars

C19_Witness ==
    /\ last.op = "submit_review_decision"
    /\ last.result = "ok"
    /\ last.decision = "revise"
    /\ db[last.report_id].status = REVISION_REQUESTED
    /\ db[last.report_id].risk_level = "DANGEROUS"
    /\ db[last.report_id].llm_analysis.flagged_sections = FlagList(<<"CRITICAL">>)

\* the single validation of SpecValidate has returned its receipt
Validated == out.op # "none"

PrincipleOrder == <<"Ahimsa", "Satya", "Asteya", "Brahmacharya", "Aparigraha">>

NamesOf(entries) == [k \in 1..Len(entries) |-> entries[k].principle]

NameSet(entries) == { entries[k].principle : k \in 1..Len(entries) }

\* the patterns of a checker: its first list, then its second
AllPatterns(principle) == principle.first \o principle.second

\* the patterns of the checker that occur in the lower-cased content
Matching(principle, content) ==
    { k \in 1..Len(AllPatterns(principle)) : In(AllPatterns(principle)[k], Lower(content)) }

FirstMatching(principle, content) ==
    CHOOSE k \in Matching(principle, content) : \A j \in Matching(principle, content) : k <= j

MessageOf(principle, k) ==
    IF k <= Len(principle.first) THEN principle.first_message ELSE principle.second_message

\* the entry of the receipt for the k-th principle
EntryOf(receipt, k) ==
    LET all == receipt.harmonies \o receipt.violations
    IN  all[CHOOSE i \in 1..Len(all) : all[i].principle = Principles[k].name]

\* C13: the receipt lists each of the five principles once, violations and
\* harmonies each in the order Ahimsa, Satya, Asteya, Brahmacharya,
\* Aparigraha; a principle is a violation iff a pattern of its checker
\* occurs; validation_result is FAILED iff there is a violation, and content
\* that matches nothing is PASSED with 5 harmonies.
C13_ReceiptAggregation ==
    Validated =>
        LET receipt == out.receipts[1]
            violated == { Principles[k].name : k \in { i \in 1..Len(Principles) :
                              Matching(Principles[i], inp.content) # {} } }
        IN  /\ NamesOf(receipt.violations)
                   = SelectSeq(PrincipleOrder, LAMBDA n : n \in violated)
            /\ NamesOf(receipt.harmonies)
                   = SelectSeq(PrincipleOrder, LAMBDA n : n \notin violated)
            /\ \A k \in 1..Len(receipt.violations) : receipt.violations[k].status = "violation"
            /\ \A k \in 1..Len(receipt.harmonies) : receipt.harmonies[k].status = "harmony"
            /\ (receipt.validation_result = "FAILED") = (Len(receipt.violations) > 0)
            /\ receipt.validation_result \in {"PASSED", "FAILED"}
            /\ violated = {} =>
                   receipt.validation_result = "PASSED" /\ Len(receipt.harmonies) = 5

C13_Witness ==
    /\ Validated
    /\ inp.content = "You have to rest."
    /\ out.receipts[1].validation_result = "FAILED"
    /\ NamesOf(out.receipts[1].violations) = <<"Brahmacharya", "Aparigraha">>
    /\ NamesOf(out.receipts[1].harmonies) = <<"Ahimsa", "Satya", "Asteya">>

\* C14: a checker passes iff no pattern of it occurs in the lower-cased
\* content; else its explanation is the message of the list the first
\* matching pattern is in, followed by that pattern in quotes, the first list
\* searched before the second.  "you should stop medication" fails the
\* non-harm checker with 'stop medication' and passes the other four.
C14_FirstMatchingPattern ==
    Validated =>
        /\ \A k \in 1..Len(Principles) :
             LET principle == Principles[k]
                 entry == EntryOf(out.receipts[1], k)
             IN  IF Matching(principle, inp.content) = {}
                 THEN entry.status = "harmony" /\ entry.explanation = principle.harmony
                 ELSE LET m == FirstMatching(principle, inp.content)
                      IN  /\ entry.status = "violation"
                          /\ entry.explanation
                                 = MessageOf(principle, m) \o "'" \o AllPatterns(principle)[m] \o "'"
        /\ inp.content = "you should stop medication" =>
               /\ NamesOf(out.receipts[1].violations) = <<"Ahimsa">>
               /\ out.receipts[1].violations[1].explanation
                      = Ahimsa.first_message \o "'stop medication'"
               /\ Len(out.receipts[1].harmonies) = 4

C14_Witness ==
    /\ Validated
    /\ inp.content = "You're avoiding it, and it must be hard."
    /\ NamesOf(out.receipts[1].violations) = <<"Ahimsa">>
    /\ out.receipts[1].violations[1].explanation
           = "AHIMSA VIOLATION: Content suggests potentially harmful medical advice: 'must be'"

ValidateOps == {"validate_story_synthesis", "validate_recommendation"}

\* C15: a validation through the helpers appends its receipt at the end of
\* the audit log; get_audit_trail, the export and a guarded call leave the
\* log as it is; no step removes, reorders or changes a receipt, so the
\* length of the log never decreases.
C15_AppendOnly ==
    [][/\ Len(GlobalLog') >= Len(GlobalLog)
       /\ SubSeq(GlobalLog', 1, Len(GlobalLog)) = GlobalLog
       /\ IF out'.op \in ValidateOps
          THEN GlobalLog' = Append(GlobalLog, out'.receipts[1])
          ELSE GlobalLog' = GlobalLog]_vars

C15_Witness ==
    /\ Len(GlobalLog) = 2
    /\ GlobalLog[1].content_type = "recommendation"
    /\ GlobalLog[2].content_type = "story_synthesis"
    /\ out.op = "get_audit_trail"
    /\ out.receipts = <<GlobalLog[2]>>

\* the receipts the run has produced: those in the audit log and the one
\* returned last
ReceiptsSeen ==
    { GlobalLog[k] : k \in 1..Len(GlobalLog) }
        \cup (IF out.op \in ValidateOps \cup {"constitutional_guard"}
              THEN {out.receipts[1]} ELSE {})

\* the content a receipt was made for, as its content_hash names it
ContentOf(receipt) == SubSeq(receipt.content_hash, Len(Sha256Hex("")) + 1,
                             Len(receipt.content_hash))

C17_NoLostReceipt ==
    (\A p \in Procs : pc[p] = "done") => Len(GlobalLog) = Cardinality(Procs)

\* C18: the receipt a validation returns, through a validate_* helper or
\* under constitutional_guard, is in the audit log of the singleton.
C18_ReceiptInGlobalLog ==
    out.op \in ValidateOps \cup {"constitutional_guard"} =>
        \E k \in 1..Len(GlobalLog) : GlobalLog[k] = out.receipts[1]

\* the verdict is one of the two fallbacks of scan_report: it carries 'error'
IsFallback(verdict) == verdict.error # "missing"

\* C21: in a fallback verdict, for a transport error and for a reply that
\* cannot be parsed, overall_assessment contains the text of the error.
C21_ErrorTextInAssessment ==
    Submitted /\ last.result = "ok" /\ IsFallback(db[last.report_id].llm_analysis) =>
        LET verdict == db[last.report_id].llm_analysis
        IN  \E k \in 1..Len(verdict.overall_assessment) :
                verdict.overall_assessment[k] = verdict.error

\* C22: the risk_level of every persisted record is SAFE, CAUTION or
\* DANGEROUS, whatever the judge answered.
C22_RiskLevelDomain ==
    \A i \in Reports : db[i].risk_level \in RiskLevels

\* C23: no two receipts in the audit log have the same receipt_id, also when
\* their contents share the first 100 characters or their timestamps are the
\* same.
C23_UniqueReceiptIds ==
    \A i, j \in 1..Len(GlobalLog) :
        i # j => GlobalLog[i].receipt_id # GlobalLog[j].receipt_id

\* C24: the 'total' of get_review_stats is the number of review records in
\* the table, after any submissions and reviewer decisions.
C24_StatsTotal ==
    get_review_stats(db).total = Len(db)

\* the record of report i as the session sees it
SessionObject(i) == IF obj[i] = NoReview THEN db[i] ELSE obj[i]

FailedDecisions == {"NotFound", "InvalidState", "InvalidArgument"}

\* C25: a decision that fails with NotFound, InvalidState or InvalidArgument
\* leaves status and the reviewer fields of the record as they were in the
\* object the session holds, and a record on which no decision was accepted
\* never gets reviewer fields persisted by a later commit on that session.
C25_FailedDecisionFrame ==
    /\ [][last'.op = "submit_reviewer_decision" /\ last'.result \in FailedDecisions =>
            \A i \in Reports :
                ReviewerFields(SessionObject(i)') = ReviewerFields(SessionObject(i))]_vars
    /\ [](\A i \in Reports :
            history[i].ok = 0 => /\ db[i].reviewer_id = NoneInt
                                 /\ db[i].reviewed_at = NoneInt
                                 /\ db[i].reviewer_decision = "null")

\* the second part of C25 alone: a later commit persists the refused stamp
C25_RefusedStampPersisted ==
    \A i \in Reports :
        history[i].ok = 0 => db[i].reviewer_decision = "null"

\* C26: every APPROVED record is justified: admin_bypass is true, or
\* auto_safe_delivery is true and requires_human_review is false, or
\* reviewer_decision is approve with reviewer_id set; every PENDING record
\* has reviewer_id, reviewed_at and reviewer_decision null.
C26_StatusJustified ==
    \A i \in Reports :
        /\ db[i].status = APPROVED =>
               \/ db[i].admin_bypass
               \/ db[i].auto_safe_delivery = "true" /\ db[i].requires_human_review = "false"
               \/ db[i].reviewer_decision = "approve" /\ db[i].reviewer_id # NoneInt
        /\ db[i].status = PENDING =>
               /\ db[i].reviewer_id = NoneInt
               /\ db[i].reviewed_at = NoneInt
               /\ db[i].reviewer_decision = "null"

\* what the status of a record may depend on: the caller's role and the two
\* routing fields of the verdict
RoutingInputs(review) ==
    <<review.user_id, review.llm_analysis.auto_safe_delivery,
      review.llm_analysis.requires_human_review>>

C28_DeliveryRecorded ==
    \A i \in Reports :
        /\ i \in emailed <=> (db[i].delivered_at # NoneInt /\ db[i].delivery_method # "null")
        /\ db[i].delivered_at # NoneInt => db[i].status = APPROVED

\* the record was approved by a reviewer and no email of it was recorded
ApprovedUndelivered(i) ==
    /\ i \in Reports
    /\ db[i].status = APPROVED
    /\ db[i].reviewer_decision = "approve"
    /\ db[i].delivered_at = NoneInt

\* C29: every report a reviewer approved is eventually delivered and a failed
\* send can be retried: the approve request of a report that a reviewer
\* approved and that is still undelivered is accepted again, so that no
\* record stays APPROVED by a reviewer and undelivered forever.
C29_RetryAccepted ==
    [][\A i \in Reports :
        DecisionStepOn(i) /\ ApprovedUndelivered(i) /\ last'.decision = "approve"
            => last'.result = "ok"]_vars

\* what the handlers do instead: a record a reviewer approved is never
\* delivered by a later step
C29_StaysUndelivered ==
    [][\A i \in Reports : ApprovedUndelivered(i) => ApprovedUndelivered(i)']_vars

\* the severities of the flags the judge's answer lists
JudgedFlags == inp.reply.text[1].v.flagged_sections.items

\* C30: the decision rules are total and mutually exclusive: the flags of a
\* report meet the rule of exactly one of SAFE, CAUTION and DANGEROUS.
C30_RulesTotalExclusive ==
    last.op = "decision_rules" => Cardinality(DecisionRules(JudgedFlags)) = 1

====
